---- MODULE Spec2Model ----
(***************************************************************************)
(* Scrum Sprint Runner: the board state held by the App component          *)
(* (src/App.tsx), its mutation handlers, the modal forms that call them,   *)
(* the asynchronous story generation, and the two derived views            *)
(* (tasksByColumn, burndownData).                                          *)
(*                                                                         *)
(* Representation                                                          *)
(*  - a JavaScript string is a sequence of one-character strings, so that  *)
(*    String.prototype.trim is computed and not assumed;                   *)
(*  - an optional value (undefined, null, the '' of an empty input) is the *)
(*    empty sequence <<>>, a present value v is <<v>>;                     *)
(*  - a task id `task-N` is <<N>> and `task-N-I` is <<N, I>>;              *)
(*  - a Date is its time in milliseconds counted from                      *)
(*    2024-07-20T00:00:00Z (the start of initialSprint); a date string     *)
(*    YYYY-MM-DD of a date input is the number of whole days from that     *)
(*    same instant;                                                        *)
(*  - the `ideal` value of a burndown point, a number with one decimal, is *)
(*    held in tenths of a point (Math.round(x * 10) / 10 is Round(x * 10)) *)
(*    and fractions are exact rationals [n, d].                            *)
(***************************************************************************)
EXTENDS Integers, Sequences, FiniteSets, TLC

VARIABLES
    tasks,              \* useState<Task[]>            (App.tsx:456)
    sprint,             \* useState<Sprint>            (App.tsx:457)
    isLoading,          \* useState(false)             (App.tsx:458)
    aiFeature,          \* 'stories' | 'summary' | null (App.tsx:459)
    showNewTaskModal,   \* App.tsx:462
    editingTask,        \* Task | null                 (App.tsx:463)
    showSprintModal,    \* App.tsx:464
    showStoriesModal,   \* App.tsx:465
    storiesInFlight,    \* generateUserStories promises not yet settled
    aiGeneratedContent, \* useState<string>('')       (App.tsx:460)
    showRetroModal,     \* App.tsx:461
    retroInFlight,      \* summarizeRetrospective promises not yet settled
    staleRetros,        \* those of them sent by a RetrospectiveModal that has
                        \* been unmounted since
    detailDraft,        \* TaskDetailModal's description, attachments and
                        \* isAnalyzing (App.tsx:210-214) while it is mounted
    analysisInFlight,   \* analyzeTaskAttachments promises of the mounted
                        \* TaskDetailModal not yet settled
    staleAnalyses,      \* such promises of TaskDetailModals since unmounted
    now,                \* the latest reading of Date.now()
    ops,                \* number of accepted mutations so far (model bound)
    last                \* the handler that ran last, with its request

vars == <<tasks, sprint, isLoading, aiFeature, showNewTaskModal, editingTask,
          showSprintModal, showStoriesModal, storiesInFlight, aiGeneratedContent,
          showRetroModal, retroInFlight, staleRetros, detailDraft, analysisInFlight, staleAnalyses,
          now, ops, last>>

\* The state of the retrospective feature
retroVars == <<aiGeneratedContent, showRetroModal, retroInFlight, staleRetros>>

\* The state of the mounted TaskDetailModal and of its analysis requests
detailVars == <<detailDraft, analysisInFlight, staleAnalyses>>

----------------------------------------------------------------------------
(* Bounds of the model                                                     *)

\* The reading of Date.now() when the App is constructed.
StartTime == 10
\* How many milliseconds the clock advances in a behaviour.
MaxTicks == 1
\* Accepted mutations (task or sprint) in a behaviour of the application.
MaxOps == 2
\* Stories in one response of the AI service.
MaxStories == 1
\* Length of the task collections the mutators are applied to directly.
MaxInputLen == 2
\* Mutations in a behaviour of direct mutator application (at most MaxOps).
MaxDirectOps == 1
\* Attachments held by a TaskDetailModal.
MaxAttachments == 2

----------------------------------------------------------------------------
(* Program constants                                                       *)

\* 1000 * 60 * 60 * 24
MsPerDay == 86400000

ColumnId == {"backlog", "todo", "in-progress", "blocked", "done"}

COLUMNS == <<"backlog", "todo", "in-progress", "done">>

\* Mutation of ColumnOptions: the select offers a value outside ColumnId
ColumnOptionsWithArchive == {COLUMNS[i] : i \in DOMAIN COLUMNS} \cup {"archive"}

ColumnOptions == {COLUMNS[i] : i \in DOMAIN COLUMNS}

initialTasks ==
    << [id |-> <<1>>, column |-> "backlog", title |-> <<"U", "A">>,
        description |-> <<"D">>, points |-> <<8>>, attachments |-> <<>>],
       [id |-> <<2>>, column |-> "backlog", title |-> <<"C", "I">>,
        description |-> <<"C">>, points |-> <<>>, attachments |-> <<>>],
       [id |-> <<3>>, column |-> "todo", title |-> <<"D", "B">>,
        description |-> <<"D">>, points |-> <<5>>, attachments |-> <<>>],
       [id |-> <<4>>, column |-> "in-progress", title |-> <<"L", "P">>,
        description |-> <<"B">>, points |-> <<3>>, attachments |-> <<>>],
       [id |-> <<6>>, column |-> "blocked", title |-> <<"A", "P">>,
        description |-> <<"W">>, points |-> <<5>>, attachments |-> <<>>],
       [id |-> <<5>>, column |-> "done", title |-> <<"P", "S">>,
        description |-> <<"I">>, points |-> <<2>>, attachments |-> <<>>] >>

initialSprint ==
    [id |-> "sprint-1", name |-> <<"S", "1">>, startDate |-> 0,
     endDate |-> 14 * MsPerDay, goal |-> <<"L">>]

----------------------------------------------------------------------------
(* Strings and numbers                                                     *)

Max(a, b) == IF a >= b THEN a ELSE b

\* Math.abs
MathAbs(x) == IF x < 0 THEN -x ELSE x

\* Mutation of MathCeil: Math.floor in place of Math.ceil
MathCeilAsFloor(n, d) == n \div d

\* Math.ceil of the quotient n / d, d > 0
MathCeil(n, d) == -((-n) \div d)

\* Mutation of MathRound: Math.floor in place of Math.round
MathRoundAsFloor(q) == q.n \div q.d

\* Math.round of the rational q.n / q.d, q.d > 0: the nearest integer, a half
\* rounded up
MathRound(q) == (2 * q.n + q.d) \div (2 * q.d)

RECURSIVE TrimStart(_)
TrimStart(s) ==
    IF s # <<>> /\ Head(s) = " " THEN TrimStart(Tail(s)) ELSE s

RECURSIVE TrimEnd(_)
TrimEnd(s) ==
    IF s # <<>> /\ s[Len(s)] = " " THEN TrimEnd(SubSeq(s, 1, Len(s) - 1)) ELSE s

\* String.prototype.trim
Trim(s) == TrimEnd(TrimStart(s))

\* task.points || 0
PointsOrZero(p) == IF p = <<>> THEN 0 ELSE p[1]

\* array.findIndex(t => t.id === id), counted from 1; 0 stands for -1
FindIndex(T, id) ==
    IF \E i \in DOMAIN T : T[i].id = id
    THEN CHOOSE i \in DOMAIN T : T[i].id = id /\ \A j \in 1..(i - 1) : T[j].id # id
    ELSE 0

----------------------------------------------------------------------------
(* Derived views                                                           *)

\* Mutation of PushTask: unshift in place of push
PushTaskFront(list, task) == <<task>> \o list

\* acc[task.column].push(task)
PushTask(list, task) == Append(list, task)

RECURSIVE TasksReduce(_, _)
TasksReduce(acc, T) ==
    IF T = <<>> THEN acc
    ELSE LET task == Head(T)
             acc1 == IF task.column \notin DOMAIN acc
                     THEN acc @@ (task.column :> <<>>)
                     ELSE acc
         IN  TasksReduce([acc1 EXCEPT ![task.column] = PushTask(@, task)], Tail(T))

\* The object built by tasks.reduce: it has a key only for a column that
\* holds a task.
tasksByColumn == TasksReduce([c \in {} |-> <<>>], tasks)

\* tasksByColumn[column.id] || [], the list a KanbanColumn is given
BoardProjection(c) ==
    IF c \in DOMAIN tasksByColumn THEN tasksByColumn[c] ELSE <<>>

\* Mutation of sprintDurationDays: the difference taken without Math.abs
sprintDurationDaysSigned ==
    MathCeil(sprint.endDate - sprint.startDate, MsPerDay)

sprintDurationDays ==
    LET diffTime == MathAbs(sprint.endDate - sprint.startDate)
    IN  MathCeil(diffTime, MsPerDay)

\* list.reduce((sum, task) => sum + (task.points || 0), 0)
RECURSIVE SumPoints(_)
SumPoints(T) ==
    IF T = <<>> THEN 0
    ELSE SumPoints(SubSeq(T, 1, Len(T) - 1)) + PointsOrZero(T[Len(T)].points)

\* Mutation of IsSprintTask: the backlog is not left out
IsSprintTaskAny(t) == t.column \in ColumnId

IsSprintTask(t) == t.column # "backlog"

IsDone(t) == t.column = "done"

totalPoints == SumPoints(SelectSeq(tasks, IsSprintTask))

completedPoints == SumPoints(SelectSeq(tasks, IsDone))

\* totalPoints / sprintDurationDays, or 0, as a rational
pointsPerDay ==
    IF totalPoints > 0 /\ sprintDurationDays > 0
    THEN [n |-> totalPoints, d |-> sprintDurationDays]
    ELSE [n |-> 0, d |-> 1]

\* Math.max(0, Math.round((totalPoints - pointsPerDay * i) * 10) / 10), in tenths
Ideal(total, perDay, i) ==
    Max(0, MathRound([n |-> (total * perDay.d - perDay.n * i) * 10,
                      d |-> perDay.d]))

\* The days the loop `for (let i = 1; i <= sprintDurationDays; i++)` visits
LoopDays == 1..sprintDurationDays

burndownData ==
    LET total     == totalPoints
        perDay    == pointsPerDay
        completed == completedPoints
    IN  <<[day |-> 0, remaining |-> total, ideal |-> 10 * total]>>
        \o [i \in LoopDays |->
              [day |-> i, remaining |-> total - completed,
               ideal |-> Ideal(total, perDay, i)]]

----------------------------------------------------------------------------
(* The recipes the mutators hand to immer's produce                        *)

\* Mutation of moveTaskDraft: the task is taken out and pushed back at the end
moveTaskDraftToEnd(draft, taskId, targetColumn) ==
    IF \E i \in DOMAIN draft : draft[i].id = taskId
    THEN LET i == CHOOSE i \in DOMAIN draft :
                     /\ draft[i].id = taskId
                     /\ \A j \in 1..(i - 1) : draft[j].id # taskId
         IN  Append(SubSeq(draft, 1, i - 1) \o SubSeq(draft, i + 1, Len(draft)),
                    [draft[i] EXCEPT !.column = targetColumn])
    ELSE draft

\* Mutation of moveTaskDraft: the predicate of find negated (t.id !== taskId)
moveTaskDraftOther(draft, taskId, targetColumn) ==
    IF \E i \in DOMAIN draft : draft[i].id # taskId
    THEN LET i == CHOOSE i \in DOMAIN draft :
                     /\ draft[i].id # taskId
                     /\ \A j \in 1..(i - 1) : draft[j].id = taskId
         IN  [draft EXCEPT ![i].column = targetColumn]
    ELSE draft

moveTaskDraft(draft, taskId, targetColumn) ==
    LET i == FindIndex(draft, taskId)
    IN  IF i # 0 THEN [draft EXCEPT ![i].column = targetColumn] ELSE draft

\* Mutation of handleUpdateTaskDraft: the task is spliced out and pushed back
handleUpdateTaskDraftPush(draft, updatedTask) ==
    LET taskIndex == FindIndex(draft, updatedTask.id)
    IN  IF taskIndex # 0
        THEN Append(SubSeq(draft, 1, taskIndex - 1)
                        \o SubSeq(draft, taskIndex + 1, Len(draft)),
                    updatedTask)
        ELSE draft

handleUpdateTaskDraft(draft, updatedTask) ==
    LET taskIndex == FindIndex(draft, updatedTask.id)
    IN  IF taskIndex # 0 THEN [draft EXCEPT ![taskIndex] = updatedTask] ELSE draft

handleDeleteTaskDraft(draft, taskId) ==
    LET taskIndex == FindIndex(draft, taskId)
    IN  IF taskIndex # 0
        THEN SubSeq(draft, 1, taskIndex - 1) \o SubSeq(draft, taskIndex + 1, Len(draft))
        ELSE draft

\* The values Date.now() can return: the clock does not run backwards, and two
\* readings can fall in the same millisecond.
ClockReadings == now..(StartTime + MaxTicks)

\* `task-${Date.now()}`
NewTaskId(time) == <<time>>

\* `task-${Date.now()}-${index}`, index counted from 0
StoryTaskId(time, index) == <<time, index>>

----------------------------------------------------------------------------
(* Inputs: what a user can type into the forms, what the AI service can    *)
(* answer                                                                  *)

\* The text of a text input or textarea: empty, blank, not blank
TextInputs == {<<>>, <<" ">>, <<"a">>}

\* The state of a number input after setPoints: '' or the parsed integer
PointsInputs == {<<>>, <<0>>, <<5>>, <<-1>>}

\* The value of a date input: '' or a date string
DateInputs == {<<>>, <<0>>, <<2>>}

\* Elements of the array an answer may hold. A field that is absent (or, for
\* points, is not a number) is <<>>; the second element is the object {}.
RawStories ==
    { [title |-> <<"s">>, description |-> <<"d">>, points |-> <<3>>],
      [title |-> <<>>, description |-> <<>>, points |-> <<>>],
      [title |-> <<"s">>, description |-> <<"d">>, points |-> <<-20>>] }

SeqsUpTo(S, n) == UNION {[1..k -> S] : k \in 0..n}

\* The outcomes of the generateContent request of generateUserStories:
\*   "error"  the request fails (or getAiClient throws),
\*   "text"   the answer's text is not JSON,
\*   "object" the answer is JSON but not an array,
\*   "array"  the answer is a JSON array, of the elements `stories`.
Responses ==
    {[kind |-> k, stories |-> <<>>] : k \in {"error", "text", "object"}}
    \cup {[kind |-> "array", stories |-> r] : r \in SeqsUpTo(RawStories, MaxStories)}

\* The outcomes of the generateContent request of summarizeRetrospective: a
\* failure, or an answer with its text
SummaryResponses ==
    {[ok |-> FALSE, text |-> <<>>], [ok |-> TRUE, text |-> <<"r">>]}

\* An id no task has (task-0)
UnknownId == <<0>>

\* The `data` strings FileReader.readAsDataURL may hand over: a data URL
\* "prefix,payload", one with an empty payload, and one with no comma at all
\* (what an empty file reads as)
FileData == {<<"p", ",", "x">>, <<"p", ",">>, <<"p">>}

\* The attachment handleFileChange builds for a file
File(data) == [name |-> "f", type |-> "t", data |-> data]

\* The outcomes of the generateContent request of analyzeTaskAttachments
AnalysisResponses ==
    {[ok |-> FALSE, text |-> <<>>], [ok |-> TRUE, text |-> <<"y">>]}

\* s.indexOf(','), counted from 1; 0 stands for -1
IndexOfComma(s) ==
    IF \E i \in DOMAIN s : s[i] = ","
    THEN CHOOSE i \in DOMAIN s : s[i] = "," /\ \A j \in 1..(i - 1) : s[j] # ","
    ELSE 0

\* Mutation of Base64Data: element [0] of the split in place of element [1]
Base64DataPrefix(file) ==
    LET i == IndexOfComma(file.data)
    IN  IF i = 0 THEN file.data ELSE SubSeq(file.data, 1, i - 1)

\* file.data.split(',')[1]: the text between the first comma and the next;
\* undefined (no comma) is <<>>, as is the empty string
Base64Data(file) ==
    LET i == IndexOfComma(file.data)
    IN  IF i = 0
        THEN <<>>
        ELSE LET rest == SubSeq(file.data, i + 1, Len(file.data))
                 j    == IndexOfComma(rest)
             IN  IF j = 0 THEN rest ELSE SubSeq(rest, 1, j - 1)

\* analyzeTaskAttachments up to its request: "empty" when it returns at once
\* for no attachments, "invalid" when the map over the attachments throws
\* (the promise is rejected before generateContent is called), "request"
\* when the request is sent
analyzeTaskAttachments(attachments) ==
    IF attachments = <<>>
    THEN "empty"
    ELSE IF \E k \in DOMAIN attachments : Base64Data(attachments[k]) = <<>>
         THEN "invalid"
         ELSE "request"

----------------------------------------------------------------------------
(* The mutators of App                                                     *)

moveTask(taskId, targetColumn) ==
    /\ tasks' = moveTaskDraft(tasks, taskId, targetColumn)
    /\ UNCHANGED <<sprint, isLoading, aiFeature, showNewTaskModal, editingTask,
                   showSprintModal, showStoriesModal, storiesInFlight, now>>

\* Mutation of handleAddTask: draft.unshift in place of draft.push
handleAddTaskUnshift(taskData) ==
    \E time \in ClockReadings :
       LET newTask == [id |-> NewTaskId(time), column |-> "backlog",
                       attachments |-> <<>>, title |-> taskData.title,
                       description |-> taskData.description,
                       points |-> taskData.points]
       IN  /\ now' = time
           /\ tasks' = <<newTask>> \o tasks
           /\ showNewTaskModal' = FALSE
           /\ UNCHANGED <<sprint, isLoading, aiFeature, editingTask,
                          showSprintModal, showStoriesModal, storiesInFlight>>

handleAddTask(taskData) ==
    \E time \in ClockReadings :
       LET newTask == [id |-> NewTaskId(time), column |-> "backlog",
                       attachments |-> <<>>, title |-> taskData.title,
                       description |-> taskData.description,
                       points |-> taskData.points]
       IN  /\ now' = time
           /\ tasks' = Append(tasks, newTask)
           /\ showNewTaskModal' = FALSE
           /\ UNCHANGED <<sprint, isLoading, aiFeature, editingTask,
                          showSprintModal, showStoriesModal, storiesInFlight>>

\* TaskDetailModal leaves the tree (editingTask becomes null): its state is
\* dropped, and its pending analyses will settle on an unmounted component.
Unmount ==
    /\ detailDraft' = <<>>
    /\ analysisInFlight' = 0
    /\ staleAnalyses' = staleAnalyses + analysisInFlight

handleUpdateTask(updatedTask) ==
    /\ tasks' = handleUpdateTaskDraft(tasks, updatedTask)
    /\ editingTask' = <<>>
    /\ Unmount
    /\ UNCHANGED <<sprint, isLoading, aiFeature, showNewTaskModal, showSprintModal,
                   showStoriesModal, storiesInFlight, now>>

handleDeleteTask(taskId) ==
    /\ tasks' = handleDeleteTaskDraft(tasks, taskId)
    /\ editingTask' = <<>>
    /\ Unmount
    /\ UNCHANGED <<sprint, isLoading, aiFeature, showNewTaskModal, showSprintModal,
                   showStoriesModal, storiesInFlight, now>>

handleUpdateSprint(updatedSprint) ==
    /\ sprint' = updatedSprint
    /\ showSprintModal' = FALSE
    /\ UNCHANGED <<tasks, isLoading, aiFeature, showNewTaskModal, editingTask,
                   showStoriesModal, storiesInFlight, now>>

\* Mutation of handleGenerateStories: the feature marker is not set
handleGenerateStoriesNoMarker(featureIdea) ==
    IF featureIdea = <<>>
    THEN UNCHANGED <<tasks, sprint, isLoading, aiFeature, showNewTaskModal,
                     editingTask, showSprintModal, showStoriesModal,
                     storiesInFlight, now>>
    ELSE /\ showStoriesModal' = FALSE
         /\ isLoading' = TRUE
         /\ storiesInFlight' = storiesInFlight + 1
         /\ UNCHANGED <<tasks, sprint, aiFeature, showNewTaskModal, editingTask,
                        showSprintModal, now>>

\* handleGenerateStories up to its await: the request is sent
handleGenerateStories(featureIdea) ==
    IF featureIdea = <<>>
    THEN UNCHANGED <<tasks, sprint, isLoading, aiFeature, showNewTaskModal,
                     editingTask, showSprintModal, showStoriesModal,
                     storiesInFlight, now>>
    ELSE /\ showStoriesModal' = FALSE
         /\ isLoading' = TRUE
         /\ aiFeature' = "stories"
         /\ storiesInFlight' = storiesInFlight + 1
         /\ UNCHANGED <<tasks, sprint, showNewTaskModal, editingTask,
                        showSprintModal, now>>

\* generateUserStories' map of one element of the answer
NormaliseStory(story) ==
    [title |-> IF story.title = <<>> THEN <<"U", "S">> ELSE story.title,
     description |-> IF story.description = <<>> THEN <<"N", "D">> ELSE story.description,
     points |-> IF story.points = <<>> THEN <<0>> ELSE story.points]

\* Mutation of generateUserStories: a failure is answered with one
\* placeholder story
generateUserStoriesFallback(response) ==
    IF response.kind = "array"
    THEN [ok |-> TRUE,
          stories |-> [k \in DOMAIN response.stories |->
                          NormaliseStory(response.stories[k])]]
    ELSE [ok |-> TRUE, stories |-> <<NormaliseStory(
              [title |-> <<>>, description |-> <<>>, points |-> <<>>])>>]

\* generateUserStories from the answer on: the promise is rejected (ok is
\* FALSE) when JSON.parse or the Array.isArray check throws, and otherwise
\* resolves to the mapped elements.
generateUserStories(response) ==
    IF response.kind = "array"
    THEN [ok |-> TRUE,
          stories |-> [k \in DOMAIN response.stories |->
                          NormaliseStory(response.stories[k])]]
    ELSE [ok |-> FALSE, stories |-> <<>>]

\* The tasks handleGenerateStories appends for the stories of one answer; the
\* map runs within one reading of the clock.
StoryTasks(newStories, time) ==
    [k \in DOMAIN newStories |->
        [id |-> StoryTaskId(time, k - 1), column |-> "backlog", attachments |-> <<>>,
         title |-> newStories[k].title, description |-> newStories[k].description,
         points |-> newStories[k].points]]

----------------------------------------------------------------------------
(* The forms                                                               *)

\* The condition under which App renders the full-screen "AI is thinking..."
\* overlay
LoadingOverlayShown == isLoading /\ aiFeature = "null"

\* No modal overlay (a `fixed inset-0` layer over the page) is mounted, so
\* the header, the cards and the columns can be reached.
NoModal ==
    /\ ~showRetroModal
    /\ ~showNewTaskModal
    /\ ~showSprintModal
    /\ ~showStoriesModal
    /\ editingTask = <<>>

\* A number input with min="0" holding `points`: the browser submits the form
\* only when the value is absent or in range.
NumberInputValid(points) == points = <<>> \/ points[1] >= 0

\* points !== '' ? Number(points) : undefined
SubmittedPoints(points) == points

\* Mutation of NewTaskRejected: only the title is checked
NewTaskRejectedTitleOnly(title, description) == Trim(title) = <<>>

\* NewTaskModal.handleSubmit: !title.trim() || !description.trim()
NewTaskRejected(title, description) ==
    Trim(title) = <<>> \/ Trim(description) = <<>>

\* TaskDetailModal.handleSubmit: !title.trim()
TaskDetailRejected(title) == Trim(title) = <<>>

\* GenerateStoriesModal.handleSubmit: !featureIdea.trim()
FeatureIdeaRejected(featureIdea) == Trim(featureIdea) = <<>>

\* new Date(dateString): midnight UTC of that day
ParseDate(dateString) == dateString[1] * MsPerDay

\* date.toISOString().split('T')[0]
formatDateForInput(date) == <<date \div MsPerDay>>

\* SprintEditModal.handleSubmit, first check
SprintFieldsMissing(name, goal, startDate, endDate) ==
    Trim(name) = <<>> \/ Trim(goal) = <<>> \/ startDate = <<>> \/ endDate = <<>>

\* Mutation of SprintDatesRejected: > in place of >=
SprintDatesRejectedStrict(startDate, endDate) ==
    ParseDate(startDate) > ParseDate(endDate)

\* Mutation of SprintDatesRejected: the comparison turned round (<=)
SprintDatesRejectedReversed(startDate, endDate) ==
    ParseDate(startDate) <= ParseDate(endDate)

\* SprintEditModal.handleSubmit, second check
SprintDatesRejected(startDate, endDate) ==
    ParseDate(startDate) >= ParseDate(endDate)

\* The state TaskDetailModal's fields start from
InitialDraft(task) ==
    [title |-> task.title, description |-> task.description,
     points |-> IF PointsOrZero(task.points) = 0 THEN <<>> ELSE task.points,
     column |-> task.column, attachments |-> task.attachments]

\* The part of TaskDetailModal's state that is held while it is mounted
MountedDraft(task) ==
    [description |-> task.description, attachments |-> task.attachments,
     isAnalyzing |-> FALSE]

\* The fields of the mounted TaskDetailModal: those it started from, with the
\* description and the attachments as they stand now
CurrentDraft ==
    [InitialDraft(editingTask[1]) EXCEPT !.description = detailDraft[1].description,
                                         !.attachments = detailDraft[1].attachments]

\* The drafts submitted: the current one, or one field of it edited
Drafts(d) ==
    {d}
        \cup {[d EXCEPT !.title = x] : x \in TextInputs}
        \cup {[d EXCEPT !.description = x] : x \in TextInputs}
        \cup {[d EXCEPT !.points = x] : x \in PointsInputs}
        \cup {[d EXCEPT !.column = x] : x \in ColumnOptions}

\* The sprint forms submitted: the prefilled one with its dates edited, or
\* with its name or its goal blanked
SprintDrafts ==
    LET n == sprint.name
        g == sprint.goal
        s == formatDateForInput(sprint.startDate)
        e == formatDateForInput(sprint.endDate)
    IN  {[name |-> n, goal |-> g, startDate |-> a, endDate |-> b] :
            a \in DateInputs \cup {s}, b \in DateInputs \cup {e}}
        \cup {[name |-> x, goal |-> g, startDate |-> s, endDate |-> e] :
                x \in {<<>>, <<" ">>}}
        \cup {[name |-> n, goal |-> x, startDate |-> s, endDate |-> e] :
                x \in {<<>>, <<" ">>}}

AppUnchanged ==
    UNCHANGED <<tasks, sprint, isLoading, aiFeature, showNewTaskModal, editingTask,
                showSprintModal, showStoriesModal, storiesInFlight, now>>

----------------------------------------------------------------------------
(* Actions of the application                                              *)

\* KanbanColumn's drop of a dragged TaskCard
DropTask ==
    /\ UNCHANGED <<retroVars, detailVars>>
    /\ NoModal
    /\ ops < MaxOps
    /\ \E i \in DOMAIN tasks, c \in ColumnOptions :
          /\ tasks[i].column \in ColumnOptions
          /\ moveTask(tasks[i].id, c)
          /\ last' = [op |-> "moveTask", taskId |-> tasks[i].id,
                      targetColumn |-> c]
    /\ ops' = ops + 1

OpenNewTaskModal ==
    /\ UNCHANGED <<retroVars, detailVars>>
    /\ NoModal
    /\ ops < MaxOps
    /\ showNewTaskModal' = TRUE
    /\ last' = [op |-> "OpenNewTaskModal"]
    /\ UNCHANGED <<tasks, sprint, isLoading, aiFeature, editingTask, showSprintModal,
                   showStoriesModal, storiesInFlight, now, ops>>

CloseNewTaskModal ==
    /\ UNCHANGED <<retroVars, detailVars>>
    /\ showNewTaskModal
    /\ showNewTaskModal' = FALSE
    /\ last' = [op |-> "CloseNewTaskModal"]
    /\ UNCHANGED <<tasks, sprint, isLoading, aiFeature, editingTask, showSprintModal,
                   showStoriesModal, storiesInFlight, now, ops>>

\* The submit of NewTaskModal's form
NewTaskSubmit ==
    /\ UNCHANGED <<retroVars, detailVars>>
    /\ showNewTaskModal
    /\ \E title \in TextInputs, description \in TextInputs, points \in PointsInputs :
          /\ last' = [op |-> "NewTaskSubmit", title |-> title,
                      description |-> description]
          /\ IF NumberInputValid(points) /\ ~NewTaskRejected(title, description)
             THEN /\ ops < MaxOps
                  /\ handleAddTask([title |-> title, description |-> description,
                                    points |-> SubmittedPoints(points)])
                  /\ ops' = ops + 1
             ELSE AppUnchanged /\ UNCHANGED ops

\* handleOpenTaskDetails, from the click on a rendered TaskCard
OpenTaskDetails ==
    /\ UNCHANGED retroVars
    /\ NoModal
    /\ ops < MaxOps
    /\ \E i \in DOMAIN tasks :
          /\ tasks[i].column \in ColumnOptions
          /\ editingTask' = <<tasks[i]>>
          /\ detailDraft' = <<MountedDraft(tasks[i])>>
          /\ last' = [op |-> "handleOpenTaskDetails", taskId |-> tasks[i].id]
    /\ UNCHANGED <<analysisInFlight, staleAnalyses>>
    /\ UNCHANGED <<tasks, sprint, isLoading, aiFeature, showNewTaskModal,
                   showSprintModal, showStoriesModal, storiesInFlight, now, ops>>

\* Mutation of CloseTaskDetails: closing stores the modal's description and
\* attachments in the task
CloseTaskDetailsSaving ==
    /\ UNCHANGED retroVars
    /\ editingTask # <<>>
    /\ editingTask' = <<>>
    /\ Unmount
    /\ last' = [op |-> "CloseTaskDetails"]
    /\ tasks' = handleUpdateTaskDraft(tasks,
                    [editingTask[1] EXCEPT
                        !.description = detailDraft[1].description,
                        !.attachments = detailDraft[1].attachments])
    /\ UNCHANGED <<sprint, isLoading, aiFeature, showNewTaskModal,
                   showSprintModal, showStoriesModal, storiesInFlight, now, ops>>

CloseTaskDetails ==
    /\ UNCHANGED retroVars
    /\ editingTask # <<>>
    /\ editingTask' = <<>>
    /\ Unmount
    /\ last' = [op |-> "CloseTaskDetails"]
    /\ UNCHANGED <<tasks, sprint, isLoading, aiFeature, showNewTaskModal,
                   showSprintModal, showStoriesModal, storiesInFlight, now, ops>>

\* The submit of TaskDetailModal's form
TaskDetailSubmit ==
    /\ UNCHANGED retroVars
    /\ editingTask # <<>>
    /\ LET task == editingTask[1]
       IN  \E d \in Drafts(CurrentDraft) :
              /\ last' = [op |-> "TaskDetailSubmit", taskId |-> task.id]
              /\ IF NumberInputValid(d.points) /\ ~TaskDetailRejected(d.title)
                 THEN /\ ops < MaxOps
                      /\ handleUpdateTask(
                            [id |-> task.id, title |-> d.title,
                             description |-> d.description,
                             points |-> SubmittedPoints(d.points),
                             column |-> d.column, attachments |-> d.attachments])
                      /\ ops' = ops + 1
                 ELSE AppUnchanged /\ UNCHANGED <<detailVars, ops>>

\* TaskDetailModal.handleDelete, confirmed
TaskDetailDelete ==
    /\ UNCHANGED retroVars
    /\ editingTask # <<>>
    /\ ops < MaxOps
    /\ handleDeleteTask(editingTask[1].id)
    /\ last' = [op |-> "handleDeleteTask", taskId |-> editingTask[1].id]
    /\ ops' = ops + 1

OpenSprintModal ==
    /\ UNCHANGED <<retroVars, detailVars>>
    /\ NoModal
    /\ ops < MaxOps
    /\ showSprintModal' = TRUE
    /\ last' = [op |-> "OpenSprintModal"]
    /\ UNCHANGED <<tasks, sprint, isLoading, aiFeature, showNewTaskModal, editingTask,
                   showStoriesModal, storiesInFlight, now, ops>>

CloseSprintModal ==
    /\ UNCHANGED <<retroVars, detailVars>>
    /\ showSprintModal
    /\ showSprintModal' = FALSE
    /\ last' = [op |-> "CloseSprintModal"]
    /\ UNCHANGED <<tasks, sprint, isLoading, aiFeature, showNewTaskModal, editingTask,
                   showStoriesModal, storiesInFlight, now, ops>>

\* The submit of SprintEditModal's form
SprintEditSubmit ==
    /\ UNCHANGED <<retroVars, detailVars>>
    /\ showSprintModal
    /\ \E d \in SprintDrafts :
          /\ last' = [op |-> "SprintEditSubmit", startDate |-> d.startDate,
                      endDate |-> d.endDate]
          /\ IF SprintFieldsMissing(d.name, d.goal, d.startDate, d.endDate)
             THEN AppUnchanged /\ UNCHANGED ops
             ELSE IF SprintDatesRejected(d.startDate, d.endDate)
                  THEN AppUnchanged /\ UNCHANGED ops
                  ELSE /\ ops < MaxOps
                       /\ handleUpdateSprint(
                             [sprint EXCEPT !.name = d.name, !.goal = d.goal,
                                            !.startDate = ParseDate(d.startDate),
                                            !.endDate = ParseDate(d.endDate)])
                       /\ ops' = ops + 1

OpenStoriesModal ==
    /\ UNCHANGED <<retroVars, detailVars>>
    /\ NoModal
    /\ ops < MaxOps
    /\ showStoriesModal' = TRUE
    /\ last' = [op |-> "OpenStoriesModal"]
    /\ UNCHANGED <<tasks, sprint, isLoading, aiFeature, showNewTaskModal, editingTask,
                   showSprintModal, storiesInFlight, now, ops>>

CloseStoriesModal ==
    /\ UNCHANGED <<retroVars, detailVars>>
    /\ showStoriesModal
    /\ showStoriesModal' = FALSE
    /\ last' = [op |-> "CloseStoriesModal"]
    /\ UNCHANGED <<tasks, sprint, isLoading, aiFeature, showNewTaskModal, editingTask,
                   showSprintModal, storiesInFlight, now, ops>>

\* The submit of GenerateStoriesModal's form
GenerateStoriesSubmit ==
    /\ UNCHANGED <<retroVars, detailVars>>
    /\ showStoriesModal
    /\ \E featureIdea \in TextInputs :
          /\ last' = [op |-> "GenerateStoriesSubmit", featureIdea |-> featureIdea]
          /\ IF FeatureIdeaRejected(featureIdea)
             THEN AppUnchanged /\ UNCHANGED ops
             ELSE /\ ops < MaxOps
                  /\ handleGenerateStories(featureIdea)
                  /\ ops' = ops + 1

\* Mutation of StoriesSettled: the stories are appended to the collection
\* captured when the handler was created instead of the current one
StoriesSettledStale ==
    /\ UNCHANGED <<retroVars, detailVars>>
    /\ storiesInFlight > 0
    /\ \E response \in Responses, time \in ClockReadings :
          LET result == generateUserStories(response)
          IN  IF result.ok
              THEN /\ now' = time
                   /\ tasks' = initialTasks \o StoryTasks(result.stories, time)
                   /\ last' = [op |-> "StoriesSettled", response |-> response,
                               alert |-> <<>>]
              ELSE /\ UNCHANGED <<tasks, now>>
                   /\ last' = [op |-> "StoriesSettled", response |-> response,
                               alert |-> <<"Error generating user stories.">>]
    /\ isLoading' = FALSE
    /\ aiFeature' = "null"
    /\ storiesInFlight' = storiesInFlight - 1
    /\ UNCHANGED <<sprint, showNewTaskModal, editingTask, showSprintModal,
                   showStoriesModal, ops>>

\* handleGenerateStories from its await on: the promise of generateUserStories
\* settles, with the stories or with an error
StoriesSettled ==
    /\ UNCHANGED <<retroVars, detailVars>>
    /\ storiesInFlight > 0
    /\ \E response \in Responses, time \in ClockReadings :
          LET result == generateUserStories(response)
          IN  IF result.ok
              THEN /\ now' = time
                   /\ tasks' = tasks \o StoryTasks(result.stories, time)
                   /\ last' = [op |-> "StoriesSettled", response |-> response,
                               alert |-> <<>>]
              ELSE /\ UNCHANGED <<tasks, now>>
                   /\ last' = [op |-> "StoriesSettled", response |-> response,
                               alert |-> <<"Error generating user stories.">>]
    /\ isLoading' = FALSE
    /\ aiFeature' = "null"
    /\ storiesInFlight' = storiesInFlight - 1
    /\ UNCHANGED <<sprint, showNewTaskModal, editingTask, showSprintModal,
                   showStoriesModal, ops>>

\* The header's Run Retrospective button
OpenRetroModal ==
    /\ NoModal
    /\ ops < MaxOps
    /\ showRetroModal' = TRUE
    /\ last' = [op |-> "OpenRetroModal"]
    /\ UNCHANGED <<tasks, sprint, isLoading, aiFeature, showNewTaskModal, editingTask,
                   showSprintModal, showStoriesModal, storiesInFlight,
                   aiGeneratedContent, retroInFlight, staleRetros, detailVars,
                   now, ops>>

\* RetrospectiveModal's Cancel
CloseRetroModal ==
    /\ showRetroModal
    /\ showRetroModal' = FALSE
    /\ staleRetros' = retroInFlight
    /\ last' = [op |-> "CloseRetroModal"]
    /\ UNCHANGED <<tasks, sprint, isLoading, aiFeature, showNewTaskModal, editingTask,
                   showSprintModal, showStoriesModal, storiesInFlight,
                   aiGeneratedContent, retroInFlight, detailVars, now, ops>>

\* RetrospectiveModal.handleSubmit up to its await: the loading flag is set
\* through App's wrapper and the request is sent; the two text areas are not
\* validated and reach only the prompt.
RetroSubmit ==
    /\ showRetroModal
    /\ ops < MaxOps
    /\ isLoading' = TRUE
    /\ aiFeature' = "summary"
    /\ retroInFlight' = retroInFlight + 1
    /\ UNCHANGED staleRetros
    /\ ops' = ops + 1
    /\ last' = [op |-> "RetroSubmit"]
    /\ UNCHANGED <<tasks, sprint, showNewTaskModal, editingTask, showSprintModal,
                   showStoriesModal, storiesInFlight, aiGeneratedContent,
                   showRetroModal, detailVars, now>>

\* The RetrospectiveModal instances whose handleSubmit may resume now: the
\* mounted one ("current") when it has a request in flight, and an unmounted
\* one ("earlier") when a request of such an instance is still in flight.
RetroOrigins ==
    {o \in {"current", "earlier"} :
        \/ o = "current" /\ retroInFlight > staleRetros
        \/ o = "earlier" /\ staleRetros > 0}

\* Mutation of RetroSettled: the finally block does not reset the loading flag
RetroSettledNoReset ==
    /\ retroInFlight > 0
    /\ \E response \in SummaryResponses, origin \in RetroOrigins :
          IF response.ok
          THEN /\ aiGeneratedContent' = response.text
               /\ last' = [op |-> "RetroSettled", ok |-> TRUE, alert |-> <<>>,
                           origin |-> origin]
          ELSE /\ UNCHANGED aiGeneratedContent
               /\ last' = [op |-> "RetroSettled", ok |-> FALSE,
                           alert |-> <<"Error summarizing retrospective.">>,
                           origin |-> origin]
    /\ showRetroModal' = FALSE
    /\ retroInFlight' = retroInFlight - 1
    /\ staleRetros' = retroInFlight - 1
    /\ UNCHANGED <<tasks, sprint, isLoading, aiFeature, showNewTaskModal,
                   editingTask, showSprintModal, showStoriesModal,
                   storiesInFlight, detailVars, now, ops>>

\* RetrospectiveModal.handleSubmit from its await on. The continuation runs
\* whether or not the instance that sent the request is still mounted; its
\* onClose is App's setShowRetroModal(false), which unmounts whichever instance
\* is mounted now, so every request still in flight belongs to an unmounted
\* instance afterwards.
RetroSettled ==
    /\ retroInFlight > 0
    /\ \E response \in SummaryResponses, origin \in RetroOrigins :
          IF response.ok
          THEN /\ aiGeneratedContent' = response.text
               /\ last' = [op |-> "RetroSettled", ok |-> TRUE, alert |-> <<>>,
                           origin |-> origin]
          ELSE /\ UNCHANGED aiGeneratedContent
               /\ last' = [op |-> "RetroSettled", ok |-> FALSE,
                           alert |-> <<"Error summarizing retrospective.">>,
                           origin |-> origin]
    /\ isLoading' = FALSE
    /\ aiFeature' = "null"
    /\ showRetroModal' = FALSE
    /\ retroInFlight' = retroInFlight - 1
    /\ staleRetros' = retroInFlight - 1
    /\ UNCHANGED <<tasks, sprint, showNewTaskModal, editingTask, showSprintModal,
                   showStoriesModal, storiesInFlight, detailVars, now, ops>>

Init ==
    /\ tasks = initialTasks
    /\ sprint = initialSprint
    /\ isLoading = FALSE
    /\ aiFeature = "null"
    /\ showNewTaskModal = FALSE
    /\ editingTask = <<>>
    /\ showSprintModal = FALSE
    /\ showStoriesModal = FALSE
    /\ storiesInFlight = 0
    /\ aiGeneratedContent = <<>>
    /\ showRetroModal = FALSE
    /\ retroInFlight = 0
    /\ staleRetros = 0
    /\ detailDraft = <<>>
    /\ analysisInFlight = 0
    /\ staleAnalyses = 0
    /\ now = StartTime
    /\ ops = 0
    /\ last = [op |-> "init"]

Next ==
    \/ DropTask
    \/ OpenNewTaskModal
    \/ CloseNewTaskModal
    \/ NewTaskSubmit
    \/ OpenTaskDetails
    \/ CloseTaskDetails
    \/ TaskDetailSubmit
    \/ TaskDetailDelete
    \/ OpenSprintModal
    \/ CloseSprintModal
    \/ SprintEditSubmit
    \/ OpenStoriesModal
    \/ CloseStoriesModal
    \/ GenerateStoriesSubmit
    \/ StoriesSettled
    \/ OpenRetroModal
    \/ CloseRetroModal
    \/ RetroSubmit
    \/ RetroSettled

Spec == Init /\ [][Next]_vars

\* The AI features and the board under the assumption that every request sent
\* to the AI service is answered or fails: a pending promise is eventually
\* settled and its continuation run by the event loop. The forms that never
\* touch the loading flag are left out.
AiNext ==
    \/ DropTask
    \/ OpenStoriesModal
    \/ CloseStoriesModal
    \/ GenerateStoriesSubmit
    \/ StoriesSettled
    \/ OpenRetroModal
    \/ CloseRetroModal
    \/ RetroSubmit
    \/ RetroSettled

LiveSpec ==
    /\ Init
    /\ [][AiNext]_vars
    /\ WF_vars(StoriesSettled)
    /\ WF_vars(RetroSettled)

----------------------------------------------------------------------------
(* The mutators applied directly, to every request, on task collections    *)
(* the application can hold                                                *)

RECURSIVE Restrict(_, _, _)
Restrict(T, S, i) ==
    IF i > Len(T) THEN <<>>
    ELSE (IF i \in S THEN <<T[i]>> ELSE <<>>) \o Restrict(T, S, i + 1)

\* The collections left of initialTasks by deletions, up to MaxInputLen
\* tasks, and initialTasks itself
InputTasks ==
    {initialTasks}
    \cup {Restrict(initialTasks, S, 1) :
            S \in {X \in SUBSET DOMAIN initialTasks : Cardinality(X) <= MaxInputLen}}

\* Date values: on and off midnight
DateValues == {0, 1, MsPerDay, MsPerDay + 1, 2 * MsPerDay}

TaskIds(T) == {T[i].id : i \in DOMAIN T}

\* Tasks handed to handleUpdateTask: a task of the collection with its column
\* or its points changed, and a task of an unknown id
UpdateInputs ==
    {[tasks[i] EXCEPT !.column = c] : i \in DOMAIN tasks, c \in ColumnId}
    \cup {[tasks[i] EXCEPT !.points = x] : i \in DOMAIN tasks, x \in {<<>>, <<10>>}}
    \cup {[initialTasks[1] EXCEPT !.id = UnknownId]}

DirectMoveTask ==
    /\ UNCHANGED <<retroVars, detailVars>>
    /\ NoModal
    /\ ops < MaxOps
    /\ \E taskId \in TaskIds(tasks) \cup {UnknownId}, targetColumn \in ColumnId :
          /\ moveTask(taskId, targetColumn)
          /\ last' = [op |-> "moveTask", taskId |-> taskId,
                      targetColumn |-> targetColumn]
    /\ ops' = ops + 1

DirectAddTask ==
    /\ UNCHANGED <<retroVars, detailVars>>
    /\ NoModal
    /\ ops < MaxOps
    /\ \E title \in TextInputs, points \in {<<>>, <<5>>} :
          /\ handleAddTask([title |-> title, description |-> <<"a">>,
                            points |-> points])
          /\ last' = [op |-> "handleAddTask",
                      taskData |-> [title |-> title, description |-> <<"a">>,
                                    points |-> points]]
    /\ ops' = ops + 1

DirectUpdateTask ==
    /\ UNCHANGED retroVars
    /\ NoModal
    /\ ops < MaxOps
    /\ \E updatedTask \in UpdateInputs :
          /\ handleUpdateTask(updatedTask)
          /\ last' = [op |-> "handleUpdateTask", taskId |-> updatedTask.id,
                      updatedTask |-> updatedTask]
    /\ ops' = ops + 1

DirectDeleteTask ==
    /\ UNCHANGED retroVars
    /\ NoModal
    /\ ops < MaxOps
    /\ \E taskId \in TaskIds(tasks) \cup {UnknownId} :
          /\ handleDeleteTask(taskId)
          /\ last' = [op |-> "handleDeleteTask", taskId |-> taskId]
    /\ ops' = ops + 1

DirectUpdateSprint ==
    /\ UNCHANGED <<retroVars, detailVars>>
    /\ NoModal
    /\ ops < MaxOps
    /\ \E startDate \in DateValues, endDate \in DateValues :
          LET updatedSprint == [sprint EXCEPT !.startDate = startDate,
                                              !.endDate = endDate]
          IN  /\ handleUpdateSprint(updatedSprint)
              /\ last' = [op |-> "handleUpdateSprint",
                          updatedSprint |-> updatedSprint]
    /\ ops' = ops + 1

MutatorInit ==
    /\ tasks \in InputTasks
    /\ sprint = initialSprint
    /\ isLoading = FALSE
    /\ aiFeature = "null"
    /\ showNewTaskModal = FALSE
    /\ editingTask = <<>>
    /\ showSprintModal = FALSE
    /\ showStoriesModal = FALSE
    /\ storiesInFlight = 0
    /\ aiGeneratedContent = <<>>
    /\ showRetroModal = FALSE
    /\ retroInFlight = 0
    /\ staleRetros = 0
    /\ detailDraft = <<>>
    /\ analysisInFlight = 0
    /\ staleAnalyses = 0
    /\ now = StartTime
    /\ ops = MaxOps - MaxDirectOps
    /\ last = [op |-> "init"]

MutatorNext ==
    \/ DirectMoveTask
    \/ DirectAddTask
    \/ DirectUpdateTask
    \/ DirectDeleteTask
    \/ DirectUpdateSprint
    \/ OpenSprintModal
    \/ CloseSprintModal
    \/ SprintEditSubmit

MutatorSpec == MutatorInit /\ [][MutatorNext]_vars


----------------------------------------------------------------------------
(* The task detail modal with its attachments and their analysis: the     *)
(* handlers of the mounted TaskDetailModal, started from a board on which *)
(* a task already carries attachments.                                    *)

\* handleFileChange, one file read: reader.onload appends the attachment
handleFileChange ==
    /\ editingTask # <<>>
    /\ ops < MaxOps
    /\ Len(detailDraft[1].attachments) < MaxAttachments
    /\ \E data \in FileData :
          detailDraft' = <<[detailDraft[1] EXCEPT
                              !.attachments = Append(@, File(data))]>>
    /\ ops' = ops + 1
    /\ last' = [op |-> "handleFileChange"]
    /\ UNCHANGED <<tasks, sprint, isLoading, aiFeature, showNewTaskModal, editingTask,
                   showSprintModal, showStoriesModal, storiesInFlight, retroVars,
                   analysisInFlight, staleAnalyses, now>>

\* handleRemoveAttachment(index): prev.filter((_, i) => i !== index)
handleRemoveAttachment ==
    /\ editingTask # <<>>
    /\ ops < MaxOps
    /\ \E index \in DOMAIN detailDraft[1].attachments :
          LET prev == detailDraft[1].attachments
          IN  detailDraft' = <<[detailDraft[1] EXCEPT
                  !.attachments = SubSeq(prev, 1, index - 1)
                                     \o SubSeq(prev, index + 1, Len(prev))]>>
    /\ ops' = ops + 1
    /\ last' = [op |-> "handleRemoveAttachment"]
    /\ UNCHANGED <<tasks, sprint, isLoading, aiFeature, showNewTaskModal, editingTask,
                   showSprintModal, showStoriesModal, storiesInFlight, retroVars,
                   analysisInFlight, staleAnalyses, now>>

\* handleAnalyzeAttachments up to its await. The button is rendered only with
\* attachments and is disabled while isAnalyzing. When analyzeTaskAttachments
\* throws before its request, the catch and finally blocks run at once:
\* isAnalyzing is back to false and the description is not touched.
handleAnalyzeAttachments ==
    /\ editingTask # <<>>
    /\ detailDraft[1].attachments # <<>>
    /\ ~detailDraft[1].isAnalyzing
    /\ ops < MaxOps
    /\ IF analyzeTaskAttachments(detailDraft[1].attachments) = "request"
       THEN /\ detailDraft' = <<[detailDraft[1] EXCEPT !.isAnalyzing = TRUE]>>
            /\ analysisInFlight' = analysisInFlight + 1
            /\ ops' = ops + 1
            /\ last' = [op |-> "handleAnalyzeAttachments", error |-> <<>>,
                        alert |-> <<>>]
       ELSE /\ UNCHANGED <<detailDraft, analysisInFlight, ops>>
            /\ last' = [op |-> "handleAnalyzeAttachments",
                        error |-> <<"Invalid base64 data for file">>,
                        alert |-> <<"Error analyzing attachments.">>]
    /\ UNCHANGED <<tasks, sprint, isLoading, aiFeature, showNewTaskModal, editingTask,
                   showSprintModal, showStoriesModal, storiesInFlight, retroVars,
                   staleAnalyses, now>>

\* handleAnalyzeAttachments from its await on, the modal still mounted: the
\* summary is appended to the description ("#" stands for the separator
\* "\n\n--- AI Analysis ---\n"), or the error is alerted
AnalysisSettled ==
    /\ analysisInFlight > 0
    /\ \E response \in AnalysisResponses :
          IF response.ok
          THEN /\ detailDraft' = <<[detailDraft[1] EXCEPT
                      !.description = @ \o <<"#">> \o response.text,
                      !.isAnalyzing = FALSE]>>
               /\ last' = [op |-> "AnalysisSettled", alert |-> <<>>]
          ELSE /\ detailDraft' = <<[detailDraft[1] EXCEPT !.isAnalyzing = FALSE]>>
               /\ last' = [op |-> "AnalysisSettled",
                           alert |-> <<"Error analyzing attachments.">>]
    /\ analysisInFlight' = analysisInFlight - 1
    /\ UNCHANGED <<tasks, sprint, isLoading, aiFeature, showNewTaskModal, editingTask,
                   showSprintModal, showStoriesModal, storiesInFlight, retroVars,
                   staleAnalyses, now, ops>>

\* The same, the modal having been unmounted since: the state setters of an
\* unmounted component change nothing
StaleAnalysisSettled ==
    /\ staleAnalyses > 0
    /\ staleAnalyses' = staleAnalyses - 1
    /\ last' = [op |-> "StaleAnalysisSettled"]
    /\ UNCHANGED <<tasks, sprint, isLoading, aiFeature, showNewTaskModal, editingTask,
                   showSprintModal, showStoriesModal, storiesInFlight, retroVars,
                   detailDraft, analysisInFlight, now, ops>>

\* Attachment lists a saved task may carry
AttachmentLists ==
    {<<>>, <<File(<<"p", ",", "x">>)>>,
     <<File(<<"p", ",", "x">>), File(<<"p">>)>>}

DetailInit ==
    /\ \E a \in AttachmentLists :
          tasks = [initialTasks EXCEPT ![3].attachments = a]
    /\ sprint = initialSprint
    /\ isLoading = FALSE
    /\ aiFeature = "null"
    /\ showNewTaskModal = FALSE
    /\ editingTask = <<>>
    /\ showSprintModal = FALSE
    /\ showStoriesModal = FALSE
    /\ storiesInFlight = 0
    /\ aiGeneratedContent = <<>>
    /\ showRetroModal = FALSE
    /\ retroInFlight = 0
    /\ staleRetros = 0
    /\ detailDraft = <<>>
    /\ analysisInFlight = 0
    /\ staleAnalyses = 0
    /\ now = StartTime
    /\ ops = 0
    /\ last = [op |-> "init"]

DetailNext ==
    \/ OpenTaskDetails
    \/ CloseTaskDetails
    \/ TaskDetailSubmit
    \/ TaskDetailDelete
    \/ handleFileChange
    \/ handleRemoveAttachment
    \/ handleAnalyzeAttachments
    \/ AnalysisSettled
    \/ StaleAnalysisSettled

DetailSpec == DetailInit /\ [][DetailNext]_vars

\* ---------------------------------------------------------------------------
\* Properties
\* ---------------------------------------------------------------------------

\* C1: in every reachable state the ids of the tasks in the collection are
\* pairwise distinct, also after two additions made at one clock reading.
C1_TaskIdsUnique ==
    \A i, j \in DOMAIN tasks : tasks[i].id = tasks[j].id => i = j

\* C2: for every column identifier the board projection is exactly the tasks
\* of the collection in that column, in the collection's order, and it is the
\* empty sequence (never a missing value) for a column that holds no task.
C2_BoardProjection ==
    \A c \in ColumnId :
        LET InColumn(t) == t.column = c
        IN  BoardProjection(c) = SelectSeq(tasks, InColumn)

\* C2 witness: after a move, one column holds tasks that are not adjacent in
\* the collection while another column has no entry in the grouping at all.
C2_Witness ==
    /\ last.op = "moveTask"
    /\ \E c \in ColumnId : \E i, j, k \in DOMAIN tasks :
           /\ i < j /\ j < k
           /\ tasks[i].column = c /\ tasks[j].column # c /\ tasks[k].column = c
    /\ \E c \in ColumnId :
           c \notin DOMAIN tasksByColumn /\ BoardProjection(c) = <<>>

\* C3: the burndown series has durationDays + 1 entries whose day values are
\* 0, 1, ..., durationDays, where durationDays is the least whole number of
\* days that covers |endDate - startDate| (0 when the two dates are equal).
C3_BurndownDays ==
    LET d    == sprintDurationDays
        diff == IF sprint.endDate >= sprint.startDate
                THEN sprint.endDate - sprint.startDate
                ELSE sprint.startDate - sprint.endDate
        data == burndownData
    IN  /\ d >= 0
        /\ d * MsPerDay >= diff
        /\ (d - 1) * MsPerDay < diff
        /\ Len(data) = d + 1
        /\ \A k \in DOMAIN data : data[k].day = k - 1

\* C3 witness: a sprint updated to dates one day and one millisecond apart,
\* which rounds up to two days and three burndown entries.
C3_Witness ==
    /\ last.op = "handleUpdateSprint"
    /\ sprint.endDate - sprint.startDate = MsPerDay + 1
    /\ Len(burndownData) = 3

C5_IdealNonIncreasing ==
    LET data == burndownData
    IN  \A k \in DOMAIN data :
            /\ data[k].ideal >= 0
            /\ k > 1 => data[k].ideal <= data[k - 1].ideal

\* C6: submitting the new-task form with an empty title or an empty
\* description is rejected and leaves the collection unchanged.
C6_EmptyAddRejected ==
    [][(/\ last'.op = "NewTaskSubmit"
        /\ (Trim(last'.title) = <<>> \/ Trim(last'.description) = <<>>))
       => tasks' = tasks]_vars

\* C6 witness: a submission with a title and an empty description was made
\* and the form is still open.
C6_Witness ==
    /\ last.op = "NewTaskSubmit"
    /\ last.title # <<>>
    /\ Trim(last.title) # <<>>
    /\ last.description = <<>>
    /\ showNewTaskModal

\* C7: moving a task whose id is not in the collection leaves the collection
\* unchanged (and the step is taken normally, without an error).
C7_MoveUnknownId ==
    [][(last'.op = "moveTask" /\ last'.taskId \notin TaskIds(tasks))
       => tasks' = tasks]_vars

\* C7 witness: a move with an unknown id was applied to a non-empty collection.
C7_Witness ==
    /\ last.op = "moveTask"
    /\ last.taskId \notin TaskIds(tasks)
    /\ tasks # <<>>

\* C8: deleting is idempotent: for every reachable collection and every id,
\* deleting the id twice gives the same collection as deleting it once.
C8_DeleteIdempotent ==
    \A id \in TaskIds(tasks) \cup {UnknownId} :
        handleDeleteTaskDraft(handleDeleteTaskDraft(tasks, id), id)
            = handleDeleteTaskDraft(tasks, id)

\* C9: a sprint edit submitted through the form with startDate equal to
\* endDate is rejected and leaves the sprint unchanged, while the mutator
\* itself checks no date order: called directly it stores whatever sprint it
\* is given.
C9_EqualDatesRejectedByForm ==
    [][/\ (last'.op = "SprintEditSubmit" /\ last'.startDate = last'.endDate)
           => sprint' = sprint
       /\ last'.op = "handleUpdateSprint" => sprint' = last'.updatedSprint]_vars

\* C9 witness: the form was submitted with two equal, filled-in dates and is
\* still open.
C9_Witness ==
    /\ last.op = "SprintEditSubmit"
    /\ last.startDate = last.endDate
    /\ last.startDate # <<>>
    /\ showSprintModal

\* C10 as stated: after the mutator is applied directly with reversed dates
\* (endDate before startDate), durationDays is 0 and the burndown series is
\* the single day-0 point.
C10_ReversedDatesDegenerate ==
    (last.op = "handleUpdateSprint" /\ sprint.endDate < sprint.startDate)
        => (sprintDurationDays = 0 /\ Len(burndownData) = 1)

\* C10 amended: after the mutator is applied directly with reversed dates,
\* durationDays is the whole number of days covering startDate - endDate,
\* at least 1, with durationDays + 1 burndown points; the degenerate series
\* (durationDays 0, the single day-0 point) arises only for equal dates.
C10_ReversedDatesAbsolute ==
    last.op = "handleUpdateSprint" =>
        LET d    == sprintDurationDays
            data == burndownData
        IN  /\ sprint.endDate < sprint.startDate =>
                 /\ d >= 1
                 /\ (d - 1) * MsPerDay < sprint.startDate - sprint.endDate
                 /\ sprint.startDate - sprint.endDate <= d * MsPerDay
                 /\ Len(data) = d + 1
            /\ sprint.endDate = sprint.startDate <=>
                 (d = 0 /\ data =
                      <<[day |-> 0, remaining |-> totalPoints,
                         ideal |-> 10 * totalPoints]>>)

\* C10 witness: the mutator was applied directly with reversed dates and the
\* series has more than one point.
C10_Witness ==
    /\ last.op = "handleUpdateSprint"
    /\ sprint.endDate < sprint.startDate
    /\ Len(burndownData) > 1

\* C11: in every reachable state every task's points value, when present, is
\* a non-negative integer, whether the task came from the add form, the edit
\* form or a generated user story.
C11_PointsNonNegative ==
    \A i \in DOMAIN tasks :
        tasks[i].points = <<>> \/ tasks[i].points[1] \in Nat

C13_ColumnInColumnId ==
    \A i \in DOMAIN tasks :
        tasks[i].column \in {"backlog", "todo", "in-progress", "blocked", "done"}

\* C13 witness: the edit form saved a task with another column than it had.
C13_Witness ==
    /\ last.op = "TaskDetailSubmit"
    /\ \E i \in DOMAIN tasks :
           /\ tasks[i].id = <<1>>
           /\ tasks[i].column = "done"

\* C14: after MoveTask(taskId, C) on an existing task, the moved task is the
\* last element of column C's projected task list, for every collection and
\* every target column.
C14_MovedTaskLast ==
    (last.op = "moveTask" /\ last.taskId \in TaskIds(tasks)) =>
        LET i == FindIndex(tasks, last.taskId)
            p == BoardProjection(tasks[i].column)
        IN  p[Len(p)].id = last.taskId

\* C15: UpdateTask(updatedTask) puts updatedTask at the position of the task
\* whose id equals updatedTask.id, the length and every other task staying as
\* they were; when no task has that id the collection is unchanged.
C15_UpdateInPlace ==
    [][last'.op = "handleUpdateTask" =>
        LET u == last'.updatedTask
        IN  IF u.id \in TaskIds(tasks)
            THEN /\ Len(tasks') = Len(tasks)
                 /\ \E i \in DOMAIN tasks :
                       /\ tasks[i].id = u.id
                       /\ tasks'[i] = u
                       /\ \A j \in DOMAIN tasks \ {i} : tasks'[j] = tasks[j]
            ELSE tasks' = tasks]_vars

\* C15 witness: an update changed a task that is not the last of a
\* collection of several tasks.
C15_Witness ==
    /\ last.op = "handleUpdateTask"
    /\ Len(tasks) >= 2
    /\ tasks[1] = last.updatedTask
    /\ tasks[1] \notin {initialTasks[k] : k \in DOMAIN initialTasks}

\* C16: an accepted AddTask(title, description, points?) appends exactly one
\* task at the end of the sequence, in column backlog, with no attachments
\* and with the given title, description and points, and leaves the existing
\* tasks and their order unchanged.
C16_AddAppendsOne ==
    [][last'.op = "handleAddTask" =>
        /\ Len(tasks') = Len(tasks) + 1
        /\ SubSeq(tasks', 1, Len(tasks)) = tasks
        /\ LET t == tasks'[Len(tasks')]
           IN  /\ t.column = "backlog"
               /\ t.attachments = <<>>
               /\ t.title = last'.taskData.title
               /\ t.description = last'.taskData.description
               /\ t.points = last'.taskData.points]_vars

\* C16 witness: a task with points was added to a non-empty collection.
C16_Witness ==
    /\ last.op = "handleAddTask"
    /\ last.taskData.points = <<5>>
    /\ Len(tasks) >= 2
    /\ tasks[Len(tasks)].points = <<5>>
    /\ tasks[Len(tasks)].column = "backlog"

\* C17: when a story-generation request fails, the task collection is left
\* exactly as it is (no task added or altered), no further request is issued
\* in its place, and the failure is reported.
C17_FailedGenerationNoChange ==
    [][(last'.op = "StoriesSettled" /\ last'.response.kind # "array") =>
        /\ tasks' = tasks
        /\ storiesInFlight' = storiesInFlight - 1
        /\ retroInFlight' = retroInFlight
        /\ last'.alert # <<>>]_vars

\* C17 witness: a request failed after the collection had been changed while
\* the request was in flight.
C17_Witness ==
    /\ last.op = "StoriesSettled"
    /\ last.response.kind = "error"
    /\ last.alert # <<>>
    /\ storiesInFlight = 0
    /\ tasks # initialTasks

\* C18: in every reachable state in which a story-generation or a
\* retrospective request has been issued and has not completed, the loading
\* flag is true, also when requests of both kinds overlap.
C18_LoadingWhileInFlight ==
    (storiesInFlight > 0 \/ retroInFlight > 0) => isLoading

\* C20: generateUserStories returns stories only for an answer that is an
\* array whose elements all have a title, a description and numeric points;
\* for every other answer it fails.
C20_StoriesOnlyFromShapedArray ==
    last.op = "StoriesSettled" =>
        LET response == last.response
            Shaped(story) == /\ story.title # <<>>
                             /\ story.description # <<>>
                             /\ story.points # <<>>
        IN  generateUserStories(response).ok =>
                /\ response.kind = "array"
                /\ \A k \in DOMAIN response.stories : Shaped(response.stories[k])

\* C19: analyzeTaskAttachments fails with a validation error when the data of
\* any attachment has no comma separating the data-URI prefix from the
\* payload; no request is then sent to the AI service and the description of
\* the task detail draft is left unchanged.
C19_MalformedAttachmentRejected ==
    [][(/\ last'.op = "handleAnalyzeAttachments"
        /\ \E k \in DOMAIN detailDraft[1].attachments :
               \A i \in DOMAIN detailDraft[1].attachments[k].data :
                   detailDraft[1].attachments[k].data[i] # ",")
       => /\ last'.error # <<>>
          /\ last'.alert # <<>>
          /\ analysisInFlight' = analysisInFlight
          /\ staleAnalyses' = staleAnalyses
          /\ detailDraft'[1].description = detailDraft[1].description]_vars

\* C19 witness: the analysis was asked for with a well-formed attachment
\* followed by one whose data has no comma, and it failed.
C19_Witness ==
    /\ last.op = "handleAnalyzeAttachments"
    /\ last.error # <<>>
    /\ editingTask # <<>>
    /\ Len(detailDraft[1].attachments) = 2
    /\ detailDraft[1].attachments[1].data = <<"p", ",", "x">>
    /\ detailDraft[1].attachments[2].data = <<"p">>
    /\ analysisInFlight = 0

\* C21: MoveTask(taskId, targetColumn) on an existing task changes only that
\* task's column: the length and order of the sequence, every other task, and
\* the moved task's id, title, description, points and attachments stay.
C21_MoveChangesOnlyColumn ==
    [][(last'.op = "moveTask" /\ last'.taskId \in TaskIds(tasks)) =>
        /\ Len(tasks') = Len(tasks)
        /\ \E i \in DOMAIN tasks :
              /\ tasks[i].id = last'.taskId
              /\ tasks'[i].column = last'.targetColumn
              /\ tasks'[i].id = tasks[i].id
              /\ tasks'[i].title = tasks[i].title
              /\ tasks'[i].description = tasks[i].description
              /\ tasks'[i].points = tasks[i].points
              /\ tasks'[i].attachments = tasks[i].attachments
              /\ \A j \in DOMAIN tasks \ {i} : tasks'[j] = tasks[j]]_vars

\* C21 witness: the first of several tasks was moved to the column of a later
\* task and is still the first.
C21_Witness ==
    /\ last.op = "moveTask"
    /\ Len(tasks) >= 2
    /\ tasks[1].id = last.taskId
    /\ tasks[1].column = last.targetColumn
    /\ tasks[1].column = "done"
    /\ tasks[Len(tasks)].column = "done"

\* C22: totalPoints is the sum of the points of the tasks outside the backlog,
\* absent points counting 0; remaining is totalPoints on day 0 and, on every
\* day i >= 1, totalPoints minus the sum of the points of the tasks in done.
C22_RemainingSeries ==
    LET Points(t) == IF t.points = <<>> THEN 0 ELSE t.points[1]
        RECURSIVE Total(_)
        Total(k) == IF k = 0 THEN 0
                    ELSE Total(k - 1)
                         + (IF tasks[k].column = "backlog" THEN 0 ELSE Points(tasks[k]))
        RECURSIVE Done(_)
        Done(k) == IF k = 0 THEN 0
                   ELSE Done(k - 1)
                        + (IF tasks[k].column = "done" THEN Points(tasks[k]) ELSE 0)
        total == Total(Len(tasks))
        done  == Done(Len(tasks))
        data  == burndownData
    IN  /\ totalPoints = total
        /\ data[1].remaining = total
        /\ \A k \in 2..Len(data) : data[k].remaining = total - done

\* C22 witness: a task without points stands outside the backlog, some points
\* are done and the series has several later days.
C22_Witness ==
    /\ last.op = "moveTask"
    /\ \E i \in DOMAIN tasks :
           tasks[i].points = <<>> /\ tasks[i].column # "backlog"
    /\ completedPoints > 0
    /\ totalPoints > completedPoints
    /\ Len(burndownData) >= 3

\* C23: when generated stories arrive, the resulting sequence is the sequence
\* as it stands at arrival followed by the new stories, each in the backlog
\* with no attachments; nothing done while the request was in flight is lost.
C23_StoriesAppendedToCurrent ==
    [][(last'.op = "StoriesSettled" /\ last'.alert = <<>>) =>
        LET n == Len(last'.response.stories)
        IN  /\ Len(tasks') = Len(tasks) + n
            /\ SubSeq(tasks', 1, Len(tasks)) = tasks
            /\ \A k \in (Len(tasks) + 1)..Len(tasks') :
                  /\ tasks'[k].column = "backlog"
                  /\ tasks'[k].attachments = <<>>]_vars

\* C23 witness: stories have arrived behind a collection that is no longer
\* the initial one.
C23_Witness ==
    /\ last.op = "StoriesSettled"
    /\ last.alert = <<>>
    /\ last.response.stories # <<>>
    /\ Len(tasks) > Len(last.response.stories)
    /\ SubSeq(tasks, 1, Len(tasks) - Len(last.response.stories)) # initialTasks
    /\ tasks[Len(tasks)].column = "backlog"

\* C24: if every request sent eventually succeeds or fails, then whenever the
\* loading flag is true it eventually becomes false, on the success and on
\* the failure path of story generation and of the retrospective summary.
C24_LoadingEventuallyCleared == isLoading ~> ~isLoading

\* C24 witness: a story request has failed after a retrospective summary was
\* delivered, nothing is in flight any more and the loading flag is down.
C24_Witness ==
    /\ last.op = "StoriesSettled"
    /\ last.alert # <<>>
    /\ aiGeneratedContent # <<>>
    /\ storiesInFlight = 0
    /\ retroInFlight = 0
    /\ staleRetros = 0
    /\ ~isLoading

\* C25: every task is displayed in exactly one rendered column: the sizes of
\* the task lists passed to the rendered columns, one per entry of COLUMNS,
\* sum to the number of tasks in the collection.
C25_EveryTaskRendered ==
    LET RECURSIVE Rendered(_)
        Rendered(k) == IF k = 0 THEN 0
                       ELSE Rendered(k - 1) + Len(BoardProjection(COLUMNS[k]))
    IN  Rendered(Len(COLUMNS)) = Len(tasks)

\* C26: an open retrospective modal is closed only by its own Cancel or by
\* the completion of a request submitted from that same opening; the
\* completion of a request of an earlier, cancelled opening never closes it.
C26_ClosedOnlyByOwnRequest ==
    [][(showRetroModal /\ ~showRetroModal') =>
        \/ last'.op = "CloseRetroModal"
        \/ last'.op = "RetroSettled" /\ last'.origin = "current"]_vars

\* C27: between handler steps the loading flag is true exactly when the AI
\* feature marker is non-null, so the full-screen "AI is thinking..." overlay
\* is never displayed.
C27_LoadingIffFeature ==
    /\ isLoading <=> aiFeature # "null"
    /\ ~LoadingOverlayShown

\* C27 witness: a summary has been requested while a story request is in
\* flight; the flag is up and the marker names the summary.
C27_Witness ==
    /\ last.op = "RetroSubmit"
    /\ storiesInFlight > 0
    /\ isLoading
    /\ aiFeature = "summary"

\* C28: no task in the collection has a blank title or a blank description,
\* whichever of the add form, the edit form or story generation created or
\* saved it.
C28_NoBlankTitleOrDescription ==
    \A i \in DOMAIN tasks :
        /\ Trim(tasks[i].title) # <<>>
        /\ Trim(tasks[i].description) # <<>>

\* C29: closing the task detail modal by Cancel or the backdrop leaves the
\* collection unchanged; what was done inside the modal (edits, attachment
\* changes, AI analysis text, also when the answer arrives after the close)
\* reaches the collection only through Save. The modal's only other way to
\* change the collection is its Delete button.
C29_DraftReachesTasksOnlyBySave ==
    [][/\ last'.op = "CloseTaskDetails" => tasks' = tasks
       /\ last'.op \in {"handleFileChange", "handleRemoveAttachment",
                        "handleAnalyzeAttachments", "AnalysisSettled",
                        "StaleAnalysisSettled"} => tasks' = tasks
       /\ tasks' # tasks =>
             last'.op \in {"TaskDetailSubmit", "handleDeleteTask"}]_vars

\* C29 witness: an analysis requested from the modal was answered after the
\* modal had been closed, and the descriptions of the tasks are those they
\* started with.
C29_Witness ==
    /\ last.op = "StaleAnalysisSettled"
    /\ editingTask = <<>>
    /\ Len(tasks) = Len(initialTasks)
    /\ \A i \in DOMAIN tasks :
          tasks[i].description = initialTasks[i].description

\* C30: every remaining value of the burndown series lies between 0 and
\* totalPoints inclusive.
C30_RemainingWithinTotal ==
    LET data  == burndownData
        total == totalPoints
    IN  \A k \in DOMAIN data :
            /\ 0 <= data[k].remaining
            /\ data[k].remaining <= total

====
